---------------------------- MODULE Spec2Model ----------------------------
(***************************************************************************)
(* A model of self-update-example (binary/src/main.rs): one invocation of  *)
(* the command-line program, from `main` to the exit of the process.       *)
(*                                                                         *)
(* Strings are sequences of one-character strings, so that the parsing     *)
(* done by DownloadVersion::from_str (an ASCII case-insensitive comparison *)
(* followed by semver's VersionReq grammar) is computed character by       *)
(* character.  Option and Result values are records with a `tag` field.    *)
(***************************************************************************)
EXTENDS Integers, Sequences, FiniteSets, TLC

(***************************************************************************)
(* Bounds of the model.                                                    *)
(***************************************************************************)
\* Longest string enumerated exhaustively over Alphabet for --version.
MaxLen == 3

(***************************************************************************)
(* Option / Result values.                                                 *)
(***************************************************************************)
None == [tag |-> "None"]
Some(x) == [tag |-> "Some", val |-> x]
Ok(x) == [tag |-> "Ok", val |-> x]

(***************************************************************************)
(* Characters and strings.                                                 *)
(***************************************************************************)
UpperAscii ==
  << "A", "B", "C", "D", "E", "F", "G", "H", "I", "J", "K", "L", "M",
     "N", "O", "P", "Q", "R", "S", "T", "U", "V", "W", "X", "Y", "Z" >>
LowerAscii ==
  << "a", "b", "c", "d", "e", "f", "g", "h", "i", "j", "k", "l", "m",
     "n", "o", "p", "q", "r", "s", "t", "u", "v", "w", "x", "y", "z" >>
DigitChars == << "0", "1", "2", "3", "4", "5", "6", "7", "8", "9" >>

\* u8::to_ascii_lowercase: only A-Z are mapped; every other character
\* (non-ASCII letters included) is left as it is.
to_ascii_lowercase(c) ==
  IF \E i \in 1..26 : UpperAscii[i] = c
    THEN LowerAscii[CHOOSE i \in 1..26 : UpperAscii[i] = c]
    ELSE c

\* A comparison that does not ignore case.
eq_case_sensitive(a, b) == a = b

\* str::eq_ignore_ascii_case
eq_ignore_ascii_case(a, b) ==
  /\ Len(a) = Len(b)
  /\ \A i \in 1..Len(a) : to_ascii_lowercase(a[i]) = to_ascii_lowercase(b[i])

\* The literal "latest" of from_str.
LATEST == << "l", "a", "t", "e", "s", "t" >>

Drop(t, n) == SubSeq(t, n + 1, Len(t))

\* Utf8Path::ends_with / str::starts_with on sequences.
StartsWith(t, p) == Len(p) <= Len(t) /\ SubSeq(t, 1, Len(p)) = p

(***************************************************************************)
(* semver::VersionReq::from_str, as called by `s.parse::<VersionReq>()`.   *)
(* The grammar is the one of semver 1.x: optional operator, numeric major, *)
(* optional .minor and .patch (numeric or wildcard), comparators separated *)
(* by commas; a lone wildcard is the requirement `*`.  Pre-release and     *)
(* build metadata ('-', '+') are outside the strings the model draws, and  *)
(* so are inputs long enough to overflow u64 or to hold 32 comparators.    *)
(***************************************************************************)
IsDigit(c) == \E i \in 1..10 : DigitChars[i] = c
DigitVal(c) == (CHOOSE i \in 1..10 : DigitChars[i] = c) - 1
IsWildcard(c) == c \in {"*", "x", "X"}

RECURSIVE trim_start(_)
trim_start(t) ==
  IF t # << >> /\ Head(t) = " " THEN trim_start(Tail(t)) ELSE t

SemverErr(kind) == [ok |-> FALSE, kind |-> kind]

\* (value, len) of the digits read so far; fails on a leading zero.
RECURSIVE numeric_loop(_, _, _)
numeric_loop(t, len, value) ==
  IF len < Len(t) /\ IsDigit(t[len + 1])
    THEN IF value = 0 /\ len > 0
           THEN SemverErr("LeadingZero")
           ELSE numeric_loop(t, len + 1, value * 10 + DigitVal(t[len + 1]))
    ELSE IF len > 0
           THEN [ok |-> TRUE, val |-> value, rest |-> Drop(t, len)]
           ELSE IF len < Len(t) THEN SemverErr("UnexpectedChar")
                                ELSE SemverErr("UnexpectedEnd")

numeric_identifier(t) == numeric_loop(t, 0, 0)

\* The comparison operator at the head of a comparator; Caret when absent.
op(t) ==
  CASE StartsWith(t, << "=" >>) -> [op |-> "Exact", rest |-> Drop(t, 1)]
    [] StartsWith(t, << ">", "=" >>) -> [op |-> "GreaterEq", rest |-> Drop(t, 2)]
    [] StartsWith(t, << ">" >>) /\ ~StartsWith(t, << ">", "=" >>)
         -> [op |-> "Greater", rest |-> Drop(t, 1)]
    [] StartsWith(t, << "<", "=" >>) -> [op |-> "LessEq", rest |-> Drop(t, 2)]
    [] StartsWith(t, << "<" >>) /\ ~StartsWith(t, << "<", "=" >>)
         -> [op |-> "Less", rest |-> Drop(t, 1)]
    [] StartsWith(t, << "~" >>) -> [op |-> "Tilde", rest |-> Drop(t, 1)]
    [] StartsWith(t, << "^" >>) -> [op |-> "Caret", rest |-> Drop(t, 1)]
    [] OTHER -> [op |-> "Caret", rest |-> t]

\* The rest of a comparator once its patch was read (or found absent).
comparator_patch(o, default_op, major, minor, patch) ==
  IF ~patch.ok THEN patch
  ELSE [ok |-> TRUE,
        cmp |-> [op |-> IF default_op /\ (minor.wild \/ patch.wild)
                          THEN "Wildcard" ELSE o,
                 major |-> major.val, minor |-> minor.val, patch |-> patch.val],
        rest |-> trim_start(patch.rest)]

\* A numeric minor or patch.
component_numeric(n) ==
  IF ~n.ok THEN n
  ELSE [ok |-> TRUE, val |-> n.val, wild |-> FALSE, rest |-> n.rest]

\* The minor or patch of a comparator: absent (-1) when no '.' follows, a
\* wildcard (-1) or a number; after a wildcard minor only a wildcard patch
\* is accepted.
component(t, after_wildcard) ==
  IF ~StartsWith(t, << "." >>)
    THEN [ok |-> TRUE, val |-> -1, wild |-> FALSE, rest |-> t]
    ELSE IF Len(t) > 1 /\ IsWildcard(t[2])
           THEN [ok |-> TRUE, val |-> -1, wild |-> TRUE, rest |-> Drop(t, 2)]
           ELSE IF after_wildcard
                  THEN SemverErr("UnexpectedAfterWildcard")
                  ELSE component_numeric(numeric_identifier(Drop(t, 1)))

comparator_minor(o, default_op, major, minor) ==
  IF ~minor.ok THEN minor
  ELSE comparator_patch(o, default_op, major, minor,
                        component(minor.rest, minor.wild))

comparator_major(o, default_op, major) ==
  IF ~major.ok THEN major
  ELSE comparator_minor(o, default_op, major, component(major.rest, FALSE))

comparator_op(input, o) ==
  comparator_major(o.op, Len(o.rest) = Len(input),
                   numeric_identifier(trim_start(o.rest)))

\* One comparator: [ok, cmp, rest], or the error.
comparator(input) == comparator_op(input, op(input))

\* A comparator followed by the comparators after its comma.
version_req_more(c, more) ==
  IF ~more.ok THEN more
  ELSE [ok |-> TRUE, comparators |-> << c.cmp >> \o more.comparators]

ends_or_comma(rest) == rest = << >> \/ Head(rest) = ","

\* The comparators of a comma-separated list, or the first error.
RECURSIVE version_req(_)
RECURSIVE version_req_next(_, _)
version_req_next(input, c) ==
  IF ~c.ok
    THEN IF /\ input # << >> /\ IsWildcard(Head(input))
            /\ ends_or_comma(trim_start(Tail(input)))
           THEN SemverErr("WildcardNotTheOnlyComparator")
           ELSE c
    ELSE IF c.rest = << >>
           THEN [ok |-> TRUE, comparators |-> << c.cmp >>]
           ELSE IF Head(c.rest) # ","
                  THEN SemverErr("ExpectedCommaFound")
                  ELSE version_req_more(c, version_req(trim_start(Tail(c.rest))))

version_req(input) == version_req_next(input, comparator(input))

\* After a leading wildcard: nothing may follow it.
after_wildcard(rest) ==
  IF rest = << >> THEN [ok |-> TRUE, comparators |-> << >>]
  ELSE IF Head(rest) = "," THEN SemverErr("WildcardNotTheOnlyComparator")
                           ELSE SemverErr("UnexpectedAfterWildcard")

VersionReq_trimmed(text) ==
  IF text # << >> /\ IsWildcard(Head(text))
    THEN after_wildcard(trim_start(Tail(text)))
    ELSE version_req(text)

VersionReq_from_str(s) == VersionReq_trimmed(trim_start(s))

(***************************************************************************)
(* DownloadVersion and its FromStr / Default impls.                        *)
(***************************************************************************)
Latest == [tag |-> "Latest"]
Pinned(req) == [tag |-> "Pinned", req |-> req]

\* The innermost cause of an error.
Cause(kind) == [tag |-> "Cause", kind |-> kind]

\* A Report: the context message pushed by with_context (or written by
\* bail!), the value the message is formatted with, and the error below it.
Report(context, input, source) ==
  [tag |-> "Err", context |-> context, input |-> input, source |-> source]

\* A default of `*` (any version) instead of Latest.
DownloadVersion_default_any == Pinned(<< >>)

\* impl Default for DownloadVersion
DownloadVersion_default == Latest

\* A from_str that falls back to Latest when the range does not parse.
from_str_range_coerce(s, version_req_) ==
  [ret |-> IF version_req_.ok
             THEN Ok(Pinned(version_req_.comparators))
             ELSE Ok([tag |-> "Latest"]),
   calls |-> << s >>]

\* from_str, lines 151-154, on the outcome of the range parse.
from_str_range(s, version_req_) ==
  [ret |-> IF version_req_.ok
             THEN Ok(Pinned(version_req_.comparators))
             ELSE Report("error parsing version", s, Cause(version_req_.kind)),
   calls |-> << s >>]

\* impl FromStr for DownloadVersion: the value returned (ret) and the
\* strings handed to `parse::<VersionReq>()` on the way (calls).
from_str_exec(s) ==
  IF eq_ignore_ascii_case(s, LATEST)
    THEN [ret |-> Ok(Latest), calls |-> << >>]
    ELSE from_str_range(s, VersionReq_from_str(s))

from_str(s) == from_str_exec(s).ret

\* structopt's conversion of the value of --version (Option<DownloadVersion>
\* uses the FromStr impl).
structopt_parse_version(s) == from_str_exec(s)

(***************************************************************************)
(* Config and its deserialization.                                         *)
(***************************************************************************)
\* A `version` key of the TOML document: absent, a string, or a value of
\* another type.
Absent == [tag |-> "Absent"]
String(s) == [tag |-> "String", val |-> s]
Integer == [tag |-> "Integer"]

\* The derived, untagged Deserialize of DownloadVersion, which `version`
\* would go through without serde_as: no string is the unit variant Latest,
\* and a string is Pinned when it is a range.
untagged_deserialize(field) ==
  IF field.tag = "String"
    THEN from_str_range(field.val, VersionReq_from_str(field.val))
    ELSE [ret |-> Report("invalid type", << >>, Cause("no variant matched")),
          calls |-> << >>]

\* serde_as DisplayFromStr on a present `version`: a string is handed to
\* FromStr; any other TOML type is an invalid-type error.
DisplayFromStr_deserialize(field) ==
  IF field.tag = "String"
    THEN from_str_exec(field.val)
    ELSE [ret |-> Report("invalid type", << >>, Cause("expected a string")),
          calls |-> << >>]

\* The `version` field of Config: #[serde(default)] when the key is absent.
Config_version(field) ==
  IF field.tag = "Absent"
    THEN [ret |-> Ok(DownloadVersion_default), calls |-> << >>]
    ELSE DisplayFromStr_deserialize(field)

\* The Config of a TOML document whose `version` deserialized as v;
\* `repo` and `prefix` are required.
Config_fields(doc, v) ==
  [ret |-> IF v.ret.tag = "Err" THEN v.ret
           ELSE IF doc.repo.tag = "None"
                  THEN Report("missing field", << >>, Cause("repo"))
           ELSE IF doc.prefix.tag = "None"
                  THEN Report("missing field", << >>, Cause("prefix"))
           ELSE Ok([repo |-> doc.repo.val, prefix |-> doc.prefix.val,
                    version |-> v.ret.val]),
   calls |-> v.calls]

\* toml::from_str::<Config>
Config_deserialize(doc) ==
  IF doc.tag # "Toml"
    THEN [ret |-> Report("toml", << >>, Cause("syntax")), calls |-> << >>]
    ELSE Config_fields(doc, Config_version(doc.version))

\* with_context, line 115
deserialize_context(d) ==
  [ret |-> IF d.ret.tag = "Err"
             THEN Report("error deserializing config", << >>, d.ret)
             ELSE d.ret,
   calls |-> d.calls]

\* Config::read_path on the outcome of fs::read_to_string.
Config_read_path(path, rd) ==
  IF rd.tag = "Err"
    THEN [ret |-> Report("error reading config from", path, rd.source),
          calls |-> << >>]
    ELSE deserialize_context(Config_deserialize(rd.val))

(***************************************************************************)
(* Paths: sequences of components.                                         *)
(***************************************************************************)
CONFIG_FILE_NAME == "Config.toml"

\* A check that accepts every output of cargo.
ends_with_anything(p) == TRUE

\* Utf8Path::ends_with("Cargo.toml"): the last component is Cargo.toml.
ends_with_cargo_toml(p) == p # << >> /\ p[Len(p)] = "Cargo.toml"

\* Utf8PathBuf::pop
pop(p) == IF p = << >> THEN p ELSE SubSeq(p, 1, Len(p) - 1)

\* get_project_root after the hook is installed, on the outcome of
\* `cargo locate-project`.
locate_project(cargo_run) ==
  IF cargo_run.tag = "Err"
    THEN Report("error executing cargo locate-project", << >>, cargo_run.source)
    ELSE IF ~ends_with_cargo_toml(cargo_run.val)
           THEN Report("cargo locate-project output does not end with Cargo.toml",
                       cargo_run.val, Cause("bail"))
           ELSE Ok(pop(cargo_run.val))

(***************************************************************************)
(* Exit statuses of the process.                                           *)
(***************************************************************************)
\* main returned Ok(())
EXIT_SUCCESS == 0
\* main returned Err(report), or structopt rejected the command line
EXIT_FAILURE == 1
\* the process panicked
EXIT_PANIC == 101

\* Termination of `fn main() -> Result<()>` on the value of args.exec().
main_exit_code(r) == IF r.tag = "Ok" THEN EXIT_SUCCESS ELSE EXIT_FAILURE

(***************************************************************************)
(* The inputs of one invocation.                                           *)
(***************************************************************************)
Alphabet == {"1", "0", ".", "*", "=", ","}

\* Every spelling of "latest" in upper and lower case letters.
LatestVariants ==
  { << a, b, c, d, e, f >> :
      a \in {"l", "L"}, b \in {"a", "A"}, c \in {"t", "T"},
      d \in {"e", "E"}, e \in {"s", "S"}, f \in {"t", "T"} }

ShortStrings == UNION { [1..n -> Alphabet] : n \in 0..MaxLen }

\* "U+017F" stands for the one character LATIN SMALL LETTER LONG S, whose
\* Unicode (not ASCII) upper case is S.
ExampleStrings ==
  { << "^", "1", ".", "2" >>,
    << ">", "=", "2", ".", "0", ",", "<", "3", ".", "0" >>,
    << "1", ".", "2", ".", "3" >>,
    << "~", "1", ".", "x" >>,
    << "<", "=", " ", "2" >>,
    << "x" >>,
    << "n", "e", "w", "e", "s", "t" >>,
    << "l", "a", "t", "e", "s" >>,
    << "l", "a", "t", "e", "s", "t", " " >>,
    << " ", "l", "a", "t", "e", "s", "t" >>,
    << "l", "a", "t", "e", "s", "t", "s" >>,
    << "l", "a", "t", "e", "U+017F", "t" >>,
    << "1", ".", "2", ".", "3", ".", "4" >> }

\* The values given to --version.
VersionArgs == LatestVariants \cup ShortStrings \cup ExampleStrings

\* The strings of the `version` key of the config file.
ConfigVersions ==
  { LATEST,
    << "L", "a", "t", "e", "s", "t" >>,
    << "^", "1", ".", "2" >>,
    << "1", ".", "*" >>,
    << "l", "a", "t", "e", "s", "t", " " >>,
    << "1", ".", "0", "1" >> }

ExplicitConfigPath == << "/", "etc", "Config.toml" >>

Argvs ==
  { [config_path |-> c, subcommand |-> "list-releases", version |-> None] :
      c \in {None, Some(ExplicitConfigPath)} }
  \cup
  { [config_path |-> c, subcommand |-> "update", version |-> v] :
      c \in {None, Some(ExplicitConfigPath)},
      v \in {None} \cup { Some(s) : s \in VersionArgs } }

\* Outcomes of running `cargo locate-project`.
CargoRuns ==
  { [tag |-> "Err", source |-> Cause("cargo failed")],
    Ok(<< "/", "ws", "Cargo.toml" >>),
    Ok(<< "Cargo.toml" >>),
    Ok(<< "/", "ws", "Cargo.toml.orig" >>),
    Ok(<< "/", "ws", "cargo.toml" >>),
    Ok(<< >>) }

RepoIds == { [owner |-> "sunshowers", name |-> "self-update-example"] }

\* Outcomes of fs::read_to_string on the config path.
FileReads ==
  { [tag |-> "Err", source |-> Cause("io")],
    Ok([tag |-> "Garbage"]) }
  \cup
  { Ok([tag |-> "Toml", repo |-> r, prefix |-> p, version |-> v]) :
      r \in {None} \cup { Some(x) : x \in RepoIds },
      p \in {None, Some(<< "v" >>)},
      v \in {Absent, Integer} \cup { String(s) : s \in ConfigVersions } }

Rel(name, tag, date) == [name |-> name, tag |-> tag, date |-> date]

\* States of the release catalog of the repository.
Catalogs ==
  { << >>,
    << Rel("a", << "v", "1", ".", "0", ".", "0" >>, 1),
       Rel("b", << "v", "1", ".", "2", ".", "0" >>, 3),
       Rel("c", << "v", "1", ".", "1", ".", "5" >>, 2),
       Rel("d", << "d", "o", "c", "s" >>, 4) >> }

Original == "original binary"

(***************************************************************************)
(* The state of one invocation.                                            *)
(***************************************************************************)
VARIABLES
  pc,            \* the place the process has reached
  argv,          \* the command line, as typed
  catalog,       \* the releases the repository holds
  exe,           \* the file at the path of the running executable
  args,          \* Args::from_args(): None until parsed
  calls,         \* strings handed to parse::<VersionReq>() so far
  hook_installs, \* times color_eyre::install() has succeeded
  cargo,         \* the outcome of `cargo locate-project`, once it ran
  config_path,   \* the path Config::read_path is given
  read,          \* the outcome of fs::read_to_string, once it ran
  config,        \* the Config, once deserialized
  steps,         \* the fallible steps taken so far, in order
  stdout,        \* the releases printed
  update_req,    \* the requirement the update command resolves
  update_release,\* the release the update command selected
  ret,           \* the value Args::exec returned
  exit_code,     \* the exit status of the process, once it ended
  stderr         \* the error written as the process ended

vars ==
  << pc, argv, catalog, exe, args, calls, hook_installs, cargo, config_path,
     read, config, steps, stdout, update_req, update_release, ret, exit_code,
     stderr >>

Init ==
  /\ pc = "main"
  /\ argv \in Argvs
  /\ catalog \in Catalogs
  /\ exe = Original
  /\ args = None
  /\ calls = << >>
  /\ hook_installs = 0
  /\ cargo = None
  /\ config_path = None
  /\ read = None
  /\ config = None
  /\ steps = << >>
  /\ stdout = << >>
  /\ update_req = None
  /\ update_release = None
  /\ ret = None
  /\ exit_code = None
  /\ stderr = None

\* The Args of a command line whose --version value, if any, parsed as v.
Args_of(a, v) ==
  [ret |-> IF v.ret.tag = "Err"
             THEN Report("Invalid value for --version", a.version.val, v.ret)
             ELSE Ok([config_path |-> a.config_path,
                      subcommand |->
                        IF a.subcommand = "update"
                          THEN [tag |-> "Update",
                                version |-> IF a.version.tag = "Some"
                                              THEN Some(v.ret.val) ELSE None]
                          ELSE [tag |-> "ListReleases"]]),
   calls |-> v.calls]

\* Args::from_args on a command line: the Args value or structopt's error.
from_args(a) ==
  Args_of(a, IF a.version.tag = "Some"
               THEN structopt_parse_version(a.version.val)
               ELSE [ret |-> Ok(None), calls |-> << >>])

\* main, line 191: the command line is parsed; a value --version does not
\* accept ends the process there.
FromArgs ==
  /\ pc = "main"
  /\ LET r == from_args(argv)
     IN /\ calls' = calls \o r.calls
        /\ IF r.ret.tag = "Err"
             THEN /\ pc' = "exited"
                  /\ exit_code' = Some(EXIT_FAILURE)
                  /\ stderr' = Some(r.ret)
                  /\ args' = args
             ELSE /\ pc' = "exec"
                  /\ args' = Some(r.ret.val)
                  /\ UNCHANGED << exit_code, stderr >>
  /\ steps' = Append(steps, "from_args")
  /\ UNCHANGED << argv, catalog, exe, hook_installs, cargo, config_path, read,
                  config, stdout, update_req, update_release, ret >>

\* Args::exec, lines 41-48: an explicit --config path is used as given;
\* otherwise the project root is looked up.
ArgsExec ==
  /\ pc = "exec"
  /\ IF args.val.config_path.tag = "Some"
       THEN /\ config_path' = args.val.config_path
            /\ pc' = "read_path"
       ELSE /\ pc' = "get_project_root"
            /\ UNCHANGED config_path
  /\ UNCHANGED << argv, catalog, exe, args, calls, hook_installs, cargo, read,
                  config, steps, stdout, update_req, update_release, ret,
                  exit_code, stderr >>

\* get_project_root, line 160: color_eyre::install()?, which fails when a
\* hook is already installed.
InstallHook ==
  /\ pc = "get_project_root"
  /\ IF hook_installs = 0
       THEN /\ hook_installs' = hook_installs + 1
            /\ pc' = "locate_project"
            /\ UNCHANGED ret
       ELSE /\ ret' = Report("could not install hook", << >>, Cause("install"))
            /\ pc' = "return"
            /\ UNCHANGED hook_installs
  /\ UNCHANGED << argv, catalog, exe, args, calls, cargo, config_path, read,
                  config, steps, stdout, update_req, update_release,
                  exit_code, stderr >>

\* get_project_root, lines 164-187, and Args::exec lines 45-46.
LocateProject ==
  /\ pc = "locate_project"
  /\ \E run \in CargoRuns :
       /\ cargo' = Some(run)
       /\ LET r == locate_project(run)
          IN IF r.tag = "Err"
               THEN /\ ret' = r
                    /\ pc' = "return"
                    /\ UNCHANGED config_path
               ELSE /\ config_path' = Some(Append(r.val, CONFIG_FILE_NAME))
                    /\ pc' = "read_path"
                    /\ UNCHANGED ret
  /\ steps' = Append(steps, "locate_project")
  /\ UNCHANGED << argv, catalog, exe, args, calls, hook_installs, read, config,
                  stdout, update_req, update_release, exit_code, stderr >>

\* Args::exec, line 49: Config::read_path(&config_path)?
ReadPath ==
  /\ pc = "read_path"
  /\ \E rd \in FileReads :
       /\ read' = Some(rd)
       /\ LET r == Config_read_path(config_path.val, rd)
          IN /\ calls' = calls \o r.calls
             /\ IF r.ret.tag = "Err"
                  THEN /\ ret' = r.ret
                       /\ pc' = "return"
                       /\ UNCHANGED config
                  ELSE /\ config' = Some(r.ret.val)
                       /\ pc' = "dispatch"
                       /\ UNCHANGED ret
  /\ steps' = Append(steps, "read_path")
  /\ UNCHANGED << argv, catalog, exe, args, hook_installs, cargo, config_path,
                  stdout, update_req, update_release, exit_code, stderr >>

\* Subcommand::exec, lines 72-76: the release list is configured, built
\* and fetched.
ListReleasesFetch ==
  /\ pc = "dispatch"
  /\ args.val.subcommand.tag = "ListReleases"
  /\ \E outcome \in {"build failed", "fetch failed", "fetched"} :
       IF outcome = "fetched"
         THEN /\ pc' = "print"
              /\ steps' = steps \o << "build", "fetch" >>
              /\ UNCHANGED ret
         ELSE /\ ret' = Report(outcome, << >>, Cause("self_update"))
              /\ pc' = "return"
              /\ steps' = IF outcome = "build failed"
                            THEN Append(steps, "build")
                            ELSE steps \o << "build", "fetch" >>
  /\ UNCHANGED << argv, catalog, exe, args, calls, hook_installs, cargo,
                  config_path, read, config, stdout, update_req,
                  update_release, exit_code, stderr >>

\* Subcommand::exec, lines 78-90: every release is printed; println!
\* panics when standard output cannot be written.
ListReleasesPrint ==
  /\ pc = "print"
  /\ \E writable \in BOOLEAN :
       IF writable \/ catalog = << >>
         THEN /\ stdout' = catalog
              /\ ret' = Ok(<< >>)
              /\ pc' = "return"
              /\ UNCHANGED << exit_code, stderr >>
         ELSE /\ pc' = "exited"
              /\ exit_code' = Some(EXIT_PANIC)
              /\ stderr' = Some(Report("panic", << >>, Cause("failed printing to stdout")))
              /\ UNCHANGED << stdout, ret >>
  /\ steps' = Append(steps, "print")
  /\ UNCHANGED << argv, catalog, exe, args, calls, hook_installs, cargo,
                  config_path, read, config, update_req, update_release >>

\* An Update arm that starts writing the new binary over the executable
\* before it gives up.
Update_overwrites ==
  /\ pc = "dispatch"
  /\ args.val.subcommand.tag = "Update"
  /\ exe' = "partly written binary"
  /\ pc' = "exited"
  /\ exit_code' = Some(EXIT_PANIC)
  /\ stderr' = Some(Report("panic", << >>, Cause("not implemented")))
  /\ steps' = Append(steps, "update")
  /\ UNCHANGED << argv, catalog, args, calls, hook_installs, cargo,
                  config_path, read, config, stdout, update_req,
                  update_release, ret >>

\* An Update arm that does nothing and falls through to Ok(()).
Update_returns_ok ==
  /\ pc = "dispatch"
  /\ args.val.subcommand.tag = "Update"
  /\ ret' = Ok(<< >>)
  /\ pc' = "return"
  /\ steps' = Append(steps, "update")
  /\ UNCHANGED << argv, catalog, exe, args, calls, hook_installs, cargo,
                  config_path, read, config, stdout, update_req,
                  update_release, exit_code, stderr >>

\* Subcommand::exec, lines 85-87: the Update arm binds none of its fields
\* and is unimplemented!().
Update ==
  /\ pc = "dispatch"
  /\ args.val.subcommand.tag = "Update"
  /\ pc' = "exited"
  /\ exit_code' = Some(EXIT_PANIC)
  /\ stderr' = Some(Report("panic", << >>, Cause("not implemented")))
  /\ steps' = Append(steps, "update")
  /\ UNCHANGED << argv, catalog, exe, args, calls, hook_installs, cargo,
                  config_path, read, config, stdout, update_req,
                  update_release, ret >>

\* main, lines 190-193: the value of args.exec() ends the process.
MainReturn ==
  /\ pc = "return"
  /\ pc' = "exited"
  /\ exit_code' = Some(main_exit_code(ret))
  /\ stderr' = IF ret.tag = "Err" THEN Some(ret) ELSE None
  /\ UNCHANGED << argv, catalog, exe, args, calls, hook_installs, cargo,
                  config_path, read, config, steps, stdout, update_req,
                  update_release, ret >>

Next ==
  \/ FromArgs
  \/ ArgsExec
  \/ InstallHook
  \/ LocateProject
  \/ ReadPath
  \/ ListReleasesFetch
  \/ ListReleasesPrint
  \/ Update
  \/ MainReturn

Spec == Init /\ [][Next]_vars

(***************************************************************************)
(* Vocabulary of the properties.                                           *)
(***************************************************************************)
Took(step) == \E i \in DOMAIN steps : steps[i] = step

\* The --version value, when one was given.
HasVersionArg == argv.version.tag = "Some"

\* The TOML document read, when the file was read and is TOML.
ReadToml == read.tag = "Some" /\ read.val.tag = "Ok" /\ read.val.val.tag = "Toml"
Doc == read.val.val

\* A requirement string that is neither a spelling of "latest" nor a range.
Unparsable(s) == s \notin LatestVariants /\ ~VersionReq_from_str(s).ok

\* The document deserializes: both required fields, and a usable version.
GoodDoc(doc) ==
  /\ doc.tag = "Toml"
  /\ doc.repo.tag = "Some"
  /\ doc.prefix.tag = "Some"
  /\ doc.version.tag # "Integer"
  /\ doc.version.tag = "String" => ~Unparsable(doc.version.val)

\* The override of the update command, and the requirement in force.
Override == args.val.subcommand.version
EffectiveRequirement ==
  IF Override.tag = "Some" THEN Override.val ELSE config.val.version

\* A bare semantic version major.minor.patch, as <<major, minor, patch>>.
bare_patch(major, minor, patch) ==
  IF patch.ok /\ patch.rest = << >>
    THEN Some(<< major.val, minor.val, patch.val >>) ELSE None
bare_minor(major, minor) ==
  IF minor.ok /\ StartsWith(minor.rest, << "." >>)
    THEN bare_patch(major, minor, numeric_identifier(Drop(minor.rest, 1)))
    ELSE None
bare_major(major) ==
  IF major.ok /\ StartsWith(major.rest, << "." >>)
    THEN bare_minor(major, numeric_identifier(Drop(major.rest, 1)))
    ELSE None
bare_version(t) == bare_major(numeric_identifier(t))

\* The version of a release under a tag prefix; None when ineligible.
release_version(prefix, rel) ==
  IF StartsWith(rel.tag, prefix)
    THEN bare_version(Drop(rel.tag, Len(prefix))) ELSE None

version_less(a, b) ==
  \/ a[1] < b[1]
  \/ a[1] = b[1] /\ a[2] < b[2]
  \/ a[1] = b[1] /\ a[2] = b[2] /\ a[3] < b[3]

Eligible(prefix, rels) ==
  { i \in DOMAIN rels : release_version(prefix, rels[i]).tag = "Some" }

\* The eligible releases no other eligible release is greater than.
Greatest(prefix, rels) ==
  { i \in Eligible(prefix, rels) :
      \A j \in Eligible(prefix, rels) :
        ~version_less(release_version(prefix, rels[i]).val,
                      release_version(prefix, rels[j]).val) }

(***************************************************************************)
(* C1.  Resolving the requirement Latest selects exactly one release, the  *)
(* one with the greatest semantic version among the releases whose tag     *)
(* starts with the prefix.  Stated of the update command: once it has run  *)
(* with the requirement Latest against a catalog with an eligible release, *)
(* the release it selected is that one.                                    *)
(***************************************************************************)
C1_LatestSelectsGreatest ==
  ( /\ Took("update")
    /\ EffectiveRequirement = Latest
    /\ Eligible(config.val.prefix, catalog) # {} )
  => /\ update_release.tag = "Some"
     /\ \E i \in Greatest(config.val.prefix, catalog) :
          update_release.val = catalog[i]

(***************************************************************************)
(* C2.  During the update command, in every state reached before the swap  *)
(* completes, the file at the running executable's path is the original    *)
(* binary.  No step of the program swaps, so this is every state.          *)
(***************************************************************************)
C2_ExecutableUntouched ==
  argv.subcommand = "update" => exe = Original

\* The update command was dispatched and failed; the executable is intact.
C2_Witness ==
  /\ Took("update")
  /\ pc = "exited"
  /\ stderr.tag = "Some"
  /\ exe = Original

(***************************************************************************)
(* C3.  Every spelling of "latest" in upper and lower case parses to       *)
(* Latest, on the command line and in the config, and no such string is    *)
(* ever handed to the semantic-version range parser.                       *)
(***************************************************************************)
C3_LatestAnyCase ==
  /\ (Took("from_args") /\ HasVersionArg /\ argv.version.val \in LatestVariants)
       => /\ args.tag = "Some"
          /\ Override = Some(Latest)
  /\ (ReadToml /\ Doc.repo.tag = "Some" /\ Doc.prefix.tag = "Some"
        /\ Doc.version.tag = "String" /\ Doc.version.val \in LatestVariants)
       => /\ config.tag = "Some"
          /\ config.val.version = Latest
  /\ \A i \in DOMAIN calls : calls[i] \notin LatestVariants

\* --version LaTeSt was accepted as Latest without a range parse.
C3_Witness ==
  /\ pc = "exec"
  /\ HasVersionArg
  /\ argv.version.val = << "L", "a", "T", "e", "S", "t" >>
  /\ Override = Some(Latest)
  /\ calls = << >>

(***************************************************************************)
(* C4.  A requirement string that is neither a spelling of "latest" nor a  *)
(* valid range is an error carrying that string; it never becomes Latest,  *)
(* and a Pinned value is exactly the range the string parsed to.           *)
(***************************************************************************)
C4_BadRequirementIsError ==
  /\ (Took("from_args") /\ HasVersionArg /\ Unparsable(argv.version.val))
       => /\ args = None
          /\ pc = "exited"
          /\ stderr.tag = "Some"
          /\ stderr.val.source.context = "error parsing version"
          /\ stderr.val.source.input = argv.version.val
  /\ (ReadToml /\ Doc.version.tag = "String" /\ Unparsable(Doc.version.val))
       => /\ config = None
          /\ ret.tag = "Err"
          /\ ret.source.context = "error parsing version"
          /\ ret.source.input = Doc.version.val
  /\ (args.tag = "Some" /\ HasVersionArg)
       => /\ Override.val = Latest => argv.version.val \in LatestVariants
          /\ Override.val.tag = "Pinned" =>
               /\ VersionReq_from_str(argv.version.val).ok
               /\ Override.val.req =
                    VersionReq_from_str(argv.version.val).comparators

\* --version "latest " (trailing blank) was rejected, and the error names it.
C4_Witness ==
  /\ pc = "exited"
  /\ HasVersionArg
  /\ argv.version.val = << "l", "a", "t", "e", "s", "t", " " >>
  /\ args = None
  /\ stderr.tag = "Some"
  /\ stderr.val.source.input = argv.version.val

(***************************************************************************)
(* C5.  A config without a `version` key (and otherwise complete) is read  *)
(* successfully with the requirement Latest, the value "latest" parses to; *)
(* a `version` key that is present is never replaced by the default: the   *)
(* config holds what the key parses to, or reading fails.                  *)
(***************************************************************************)
C5_AbsentVersionIsLatest ==
  /\ (ReadToml /\ Doc.version = Absent
        /\ Doc.repo.tag = "Some" /\ Doc.prefix.tag = "Some")
       => /\ config.tag = "Some"
          /\ config.val.version = Latest
          /\ from_str(LATEST) = Ok(config.val.version)
  /\ (ReadToml /\ Doc.version # Absent /\ config.tag = "Some")
       => /\ Doc.version.tag = "String"
          /\ ~Unparsable(Doc.version.val)
          /\ Doc.version.val \notin LatestVariants
               => config.val.version =
                    Pinned(VersionReq_from_str(Doc.version.val).comparators)
  /\ (ReadToml /\ Doc.version # Absent /\ GoodDoc(Doc))
       => config.tag = "Some"

\* A config without `version` was read and holds Latest.
C5_Witness ==
  /\ ReadToml
  /\ Doc.version = Absent
  /\ config.tag = "Some"
  /\ config.val.version = Latest

(***************************************************************************)
(* C6.  The update command uses the --version override when one is given   *)
(* and the config's version (Latest when the config has none) otherwise.   *)
(***************************************************************************)
C6_OverrideTakesPrecedence ==
  Took("update") => update_req = Some(EffectiveRequirement)

C7_cli_of_config_string ==
  structopt_parse_version(Doc.version.val).ret
C7_config_of_cli_string ==
  DisplayFromStr_deserialize(String(argv.version.val)).ret
(***************************************************************************)
(* C7.  The config `version` key and the --version override are parsed     *)
(* alike: for every string, what the config path made of it is what the    *)
(* command-line conversion makes of it, and what the command line made of  *)
(* it is what the config's deserializer makes of it; both fail or both     *)
(* give the same DownloadVersion.                                          *)
(***************************************************************************)
C7_SameParserOnBothPaths ==
  /\ (ReadToml /\ Doc.version.tag = "String"
        /\ Doc.repo.tag = "Some" /\ Doc.prefix.tag = "Some")
       => IF C7_cli_of_config_string.tag = "Err"
            THEN config = None /\ ret.tag = "Err"
            ELSE /\ config.tag = "Some"
                 /\ config.val.version = C7_cli_of_config_string.val
  /\ (Took("from_args") /\ HasVersionArg)
       => IF C7_config_of_cli_string.tag = "Err"
            THEN args = None
            ELSE /\ args.tag = "Some"
                 /\ Override = Some(C7_config_of_cli_string.val)

\* The same range on the command line and in the config gave one value.
C7_Witness ==
  /\ HasVersionArg
  /\ argv.version.val = << "^", "1", ".", "2" >>
  /\ ReadToml
  /\ Doc.version = String(argv.version.val)
  /\ config.tag = "Some"
  /\ Override = Some(config.val.version)
  /\ config.val.version.tag = "Pinned"

StepFailed ==
  \/ Took("from_args") /\ args = None
  \/ cargo.tag = "Some" /\ config_path = None
  \/ read.tag = "Some" /\ config = None
  \/ Took("build") /\ ~Took("print")
  \/ Took("print") /\ ret.tag # "Ok"
  \/ Took("update")

(***************************************************************************)
(* C8.  An invocation in which a step failed ends with a non-zero exit     *)
(* status; the process exits with success only when every step of the      *)
(* chosen command completed, and an update command that did not replace    *)
(* the executable is never reported as success.                            *)
(***************************************************************************)
C8_FailureIsNonZeroExit ==
  pc = "exited"
    => /\ exit_code.tag = "Some"
       /\ StepFailed => exit_code.val # 0
       /\ exit_code.val = 0
            => /\ argv.subcommand = "list-releases"
               /\ config.tag = "Some"
               /\ SubSeq(steps, Len(steps) - 3, Len(steps))
                    = << "read_path", "build", "fetch", "print" >>
               /\ stdout = catalog
               /\ ret.tag = "Ok"
       /\ (argv.subcommand = "update" /\ exe = Original) => exit_code.val # 0

\* The catalog fetch failed and the process exited with status 1.
C8_Witness ==
  /\ pc = "exited"
  /\ Took("fetch")
  /\ ~Took("print")
  /\ exit_code = Some(EXIT_FAILURE)

(***************************************************************************)
(* C9.  The error-reporting hook is installed exactly once, at process     *)
(* start: on every path, with or without --config, it is installed before  *)
(* the config is read, the catalog fetched or the update run, and it is    *)
(* never installed again.                                                  *)
(***************************************************************************)
C9_HookInstalledAtStart ==
  /\ hook_installs <= 1
  /\ (pc \in {"read_path", "dispatch", "print"} \/ Took("read_path"))
       => hook_installs = 1

NothingDispatched ==
  /\ pc \in {"return", "exited"}
  /\ ret.tag = "Err"
  /\ ~Took("build") /\ ~Took("fetch") /\ ~Took("print") /\ ~Took("update")
  /\ stdout = << >>
  /\ pc = "exited" => exit_code = Some(EXIT_FAILURE)

RootNotFound ==
  /\ cargo.tag = "Some"
  /\ \/ cargo.val.tag = "Err"
     \/ cargo.val.val = << >>
     \/ cargo.val.val[Len(cargo.val.val)] # "Cargo.toml"

(***************************************************************************)
(* C10.  The subcommand is dispatched only after the config was read and   *)
(* deserialized; when the project root is not found (cargo fails, or its   *)
(* output does not end with Cargo.toml) or the config cannot be read or    *)
(* deserialized, Args::exec returns that error and nothing is fetched,     *)
(* printed or updated.                                                     *)
(***************************************************************************)
C10_DispatchOnlyAfterConfig ==
  /\ (pc \in {"dispatch", "print"} \/ Took("build") \/ Took("update"))
       => /\ config.tag = "Some"
          /\ ReadToml
          /\ GoodDoc(Doc)
  /\ RootNotFound
       => /\ NothingDispatched
          /\ read = None
          /\ IF cargo.val.tag = "Err"
               THEN ret.context = "error executing cargo locate-project"
               ELSE /\ ret.context =
                         "cargo locate-project output does not end with Cargo.toml"
                    /\ ret.input = cargo.val.val
  /\ (read.tag = "Some" /\ ~(ReadToml /\ GoodDoc(Doc)))
       => /\ NothingDispatched
          /\ config = None
          /\ ret.context = IF read.val.tag = "Err"
                             THEN "error reading config from"
                             ELSE "error deserializing config"

\* cargo printed a path ending in Cargo.toml.orig; the run ended on that
\* error before any config was read.
C10_Witness ==
  /\ pc = "exited"
  /\ cargo = Some(Ok(<< "/", "ws", "Cargo.toml.orig" >>))
  /\ read = None
  /\ ret.tag = "Err"
  /\ exit_code = Some(EXIT_FAILURE)

=============================================================================
